---- MODULE Spec2Model ----
(***************************************************************************)
(* Work Coordinator of the Roboflow automation project: the claim ledger   *)
(* kept by src/src/coordination_server.py (HTTP mode, one dict guarded by  *)
(* one threading.Lock) and by URLCoordinator in src/src/coordinator.py     *)
(* (file mode, one JSON file guarded by one FileLock), and the HTTP        *)
(* client HTTPCoordinator that talks to the server.                        *)
(*                                                                         *)
(* Time is an integer clock (now); every handler reads it with             *)
(* time.time().  A ledger entry is a record with the fields the code       *)
(* writes; a field the code's dict does not hold is NoStr / NoTime.        *)
(* A url is a non-empty string: the server answers a request with an empty *)
(* url with 400 "missing url" before it looks at the ledger.               *)
(***************************************************************************)
EXTENDS Integers, Sequences, FiniteSets, TLC

\* ------------------------------------------------------------------ bounds
\* Scaled stand-in for stale_timeout (default 1800 s): seconds -> ticks.
StaleTimeout == 2
\* The clock runs from 0 to MaxTime.
MaxTime == 4
\* The clock of the batch specification runs from 0 to BatchMaxTime.
BatchMaxTime == 2
\* Longest url list handed to batch_claim.
MaxBatch == 2

\* ------------------------------------------------------------ value sets
STATUS_HELD == "held"
STATUS_DONE == "done"
STATUS_FAILED == "failed"

Urls == {"A", "B"}
\* A caller is a worker process: its strategy tag (holder) and its
\* get_worker_id() (worker).
Callers == {[holder |-> "top_down", worker |-> "w1"],
            [holder |-> "bottom_up", worker |-> "w2"]}
\* The threads of a burst of concurrent claim calls, each with its holder tag.
Threads == {"t1", "t2", "t3"}
HolderOf(w) == IF w = "t2" THEN "bottom_up" ELSE "top_down"

Errors == {"e1"}
Modes == {"file", "http"}

NoStr == "none"
NoTime == -1
\* data.get(url) is None
Absent == [status |-> "absent", holder |-> NoStr, worker |-> NoStr,
           claimed_at |-> NoTime, updated_at |-> NoTime, error |-> NoStr]

EmptyLedger == [u \in Urls |-> Absent]

UrlLists == UNION {[1..n -> Urls] : n \in 0..MaxBatch}

\* --------------------------------------------------------------- server
\* entry.get("updated_at", 0)
UpdatedAtOr0(entry) == IF entry.updated_at = NoTime THEN 0 ELSE entry.updated_at

\* Mutant: a reclaim stamps claimed_at anew.
ClaimedAtOr_now(entry, t) == t

\* entry.get("claimed_at", now) if entry else now
ClaimedAtOr(entry, t) ==
  IF entry # Absent /\ entry.claimed_at # NoTime THEN entry.claimed_at ELSE t

\* Mutant: the stale test is one tick early.
_is_stale_early(entry, t) ==
  IF entry.status # STATUS_HELD THEN FALSE
  ELSE t - UpdatedAtOr0(entry) >= StaleTimeout - 1

_is_stale(entry, t) ==
  IF entry.status # STATUS_HELD THEN FALSE
  ELSE t - UpdatedAtOr0(entry) >= StaleTimeout

\* Mutant: a failed entry is granted again.
claim_granted_failed_reclaim(entry, t) ==
  IF entry # Absent
  THEN IF entry.status = STATUS_DONE THEN FALSE
       ELSE IF entry.status = STATUS_HELD /\ ~_is_stale(entry, t) THEN FALSE
       ELSE TRUE
  ELSE TRUE

\* POST /claim: the decision taken under _lock.
claim_granted(entry, t) ==
  IF entry # Absent
  THEN IF entry.status \in {STATUS_DONE, STATUS_FAILED} THEN FALSE
       ELSE IF entry.status = STATUS_HELD /\ ~_is_stale(entry, t) THEN FALSE
       ELSE TRUE
  ELSE TRUE

\* POST /claim: [data: the ledger afterwards, ok: the "ok" of the response].
claim(data, url, holder, worker, t) ==
  LET entry == data[url] IN
  IF claim_granted(entry, t)
  THEN [data |-> [data EXCEPT ![url] =
                    [status |-> STATUS_HELD, holder |-> holder, worker |-> worker,
                     claimed_at |-> ClaimedAtOr(entry, t), updated_at |-> t,
                     error |-> NoStr]],
        ok |-> TRUE]
  ELSE [data |-> data, ok |-> FALSE]

\* Mutant: the batch loop grants a failed entry.
batch_claimable_failed(entry, t) ==
  IF entry # Absent
  THEN IF entry.status = STATUS_DONE THEN FALSE
       ELSE IF entry.status = STATUS_HELD /\ ~_is_stale(entry, t) THEN FALSE
       ELSE TRUE
  ELSE TRUE

\* POST /batch_claim: the "claimable" flag computed for one url of the loop.
batch_claimable(entry, t) ==
  IF entry # Absent
  THEN IF entry.status \in {STATUS_DONE, STATUS_FAILED} THEN FALSE
       ELSE IF entry.status = STATUS_HELD /\ ~_is_stale(entry, t) THEN FALSE
       ELSE TRUE
  ELSE TRUE

\* POST /batch_claim: the for loop over urls[i..], all under one _lock.
RECURSIVE batch_claim_loop(_, _, _, _, _, _, _, _)
batch_claim_loop(data, urls, i, holder, worker, t, granted, denied) ==
  IF i > Len(urls) THEN [data |-> data, granted |-> granted, denied |-> denied]
  ELSE LET url == urls[i]
           entry == data[url]
       IN IF batch_claimable(entry, t)
          THEN batch_claim_loop(
                 [data EXCEPT ![url] =
                    [status |-> STATUS_HELD, holder |-> holder, worker |-> worker,
                     claimed_at |-> ClaimedAtOr(entry, t), updated_at |-> t,
                     error |-> NoStr]],
                 urls, i + 1, holder, worker, t, Append(granted, url), denied)
          ELSE batch_claim_loop(data, urls, i + 1, holder, worker, t,
                                granted, Append(denied, url))

\* POST /batch_claim: [data, granted, denied].
batch_claim(data, urls, holder, worker, t) ==
  IF urls = <<>> THEN [data |-> data, granted |-> <<>>, denied |-> <<>>]
  ELSE batch_claim_loop(data, urls, 1, holder, worker, t, <<>>, <<>>)

\* Mutant: /done stamps claimed_at too.
done_restamps_claim(data, url, worker, t) ==
  [data EXCEPT ![url] =
     [status |-> STATUS_DONE, holder |-> data[url].holder, worker |-> worker,
      claimed_at |-> t, updated_at |-> t, error |-> data[url].error]]

\* POST /done: {**entry, status, worker, updated_at}.
done(data, url, worker, t) ==
  [data EXCEPT ![url] =
     [status |-> STATUS_DONE, holder |-> data[url].holder, worker |-> worker,
      claimed_at |-> data[url].claimed_at, updated_at |-> t,
      error |-> data[url].error]]

\* POST /failed: {**entry, status, worker, updated_at, error}.
failed(data, url, error, worker, t) ==
  [data EXCEPT ![url] =
     [status |-> STATUS_FAILED, holder |-> data[url].holder, worker |-> worker,
      claimed_at |-> data[url].claimed_at, updated_at |-> t, error |-> error]]

\* Mutant: a failed entry is reported unavailable.
available_failed_blocked(data, url, t) ==
  LET entry == data[url] IN
  IF entry = Absent THEN TRUE
  ELSE IF entry.status = STATUS_HELD THEN _is_stale(entry, t)
  ELSE FALSE

\* GET /available: the "available" of the response.
available(data, url, t) ==
  LET entry == data[url] IN
  IF entry = Absent THEN TRUE
  ELSE IF entry.status = STATUS_DONE THEN FALSE
  ELSE IF entry.status = STATUS_HELD THEN _is_stale(entry, t)
  ELSE IF entry.status = STATUS_FAILED THEN TRUE
  ELSE TRUE

\* POST /reset: _data.clear().
reset(data) == [u \in Urls |-> Absent]

\* POST /reset_blacklist: every failed entry is deleted.
reset_blacklist(data) ==
  [u \in Urls |-> IF data[u].status = STATUS_FAILED THEN Absent ELSE data[u]]

\* ------------------------------------------------- URLCoordinator (file)
\* URLCoordinator.claim: the decision between _read and _write.
URLCoordinator_claim_granted(entry, t) ==
  IF entry # Absent
  THEN IF entry.status \in {STATUS_DONE, STATUS_FAILED} THEN FALSE
       ELSE IF entry.status = STATUS_HELD
            THEN LET age == t - UpdatedAtOr0(entry) IN
                 IF age < StaleTimeout THEN FALSE ELSE TRUE
            ELSE TRUE
  ELSE TRUE

\* URLCoordinator.claim: [data: the file afterwards, ok: the return value].
\* The file's entries hold no "worker".
URLCoordinator_claim(data, url, holder, t) ==
  LET entry == data[url] IN
  IF URLCoordinator_claim_granted(entry, t)
  THEN [data |-> [data EXCEPT ![url] =
                    [status |-> STATUS_HELD, holder |-> holder, worker |-> NoStr,
                     claimed_at |-> ClaimedAtOr(entry, t), updated_at |-> t,
                     error |-> NoStr]],
        ok |-> TRUE]
  ELSE [data |-> data, ok |-> FALSE]

\* URLCoordinator._update_status: {**entry, status, updated_at}.
_update_status(data, url, new_status, t) ==
  [data EXCEPT ![url] = [data[url] EXCEPT !.status = new_status, !.updated_at = t]]

mark_done(data, url, t) == _update_status(data, url, STATUS_DONE, t)

\* URLCoordinator.mark_failed: {**entry, status, updated_at, error}.
mark_failed(data, url, error, t) ==
  [data EXCEPT ![url] =
     [data[url] EXCEPT !.status = STATUS_FAILED, !.updated_at = t, !.error = error]]

\* URLCoordinator.is_available.
is_available(data, url, t) ==
  LET entry == data[url] IN
  IF entry = Absent THEN TRUE
  ELSE IF entry.status = STATUS_DONE THEN FALSE
  ELSE IF entry.status = STATUS_HELD
       THEN LET age == t - UpdatedAtOr0(entry) IN age >= StaleTimeout
  ELSE IF entry.status = STATUS_FAILED THEN TRUE
  ELSE TRUE

\* URLCoordinator.reset: _write({}).
URLCoordinator_reset(data) == [u \in Urls |-> Absent]

\* ------------------------------------------------------------------ state
VARIABLES
  mode,     \* coordination_mode of the deployment: "file" or "http"
  ledger,   \* the server's _data, or the content of the coordination file
  now,      \* time.time()
  observed, \* the operations whose calls are recorded in call
  call,     \* the last completed call of an observed operation, or NoCall
  active,   \* per caller and url: the granted claim the caller still works on
  lockOwner, \* the thread inside the ledger's lock, or NoStr
  thread,   \* per thread: its position inside one claim call
  client,   \* the HTTPCoordinator's operation in progress
  delivered, \* what the server answered to each delivery of the request in flight
  workers,  \* the server's _workers: last_seen per worker
  run       \* _run_pipeline: its arguments, locals and position

vars == <<mode, ledger, now, observed, call, active,
          lockOwner, thread, client, delivered, workers, run>>

\* The variables of the step-by-step specifications (threads, HTTP client).
stepVars == <<lockOwner, thread, client, delivered, workers, run>>

NoCall == [op |-> "none", url |-> NoStr, who |-> NoStr, error |-> NoStr,
           ok |-> FALSE, granted |-> <<>>, denied |-> <<>>, again |-> FALSE]

\* A caller that is not working on the url.
Idle == [at |-> NoTime, wiped |-> FALSE]

Ops == {"claim", "batch_claim", "done", "failed", "available", "reset",
        "reset_blacklist"}

\* The record of a completed call, kept when its operation is observed;
\* again: the call before it was the same call (operation and arguments).
Rec(c) ==
  IF c.op \in observed
  THEN [c EXCEPT !.again = /\ call.op = c.op /\ call.url = c.url
                           /\ call.who = c.who /\ call.error = c.error
                           /\ c.op \in {"claim", "done", "failed"}]
  ELSE NoCall

\* A thread that is outside claim().
ThreadIdle == [pc |-> "idle", url |-> NoStr, data |-> EmptyLedger, ok |-> FALSE]

\* An HTTPCoordinator with no operation in progress.
\*   pc: "idle", "request" (inside _post/_get), "loop" (the head of the
\*   fallback loop of batch_claim), "returned"; attempt: the attempt of the
\*   range(2) loop; sent: the requests the operation has sent; answered: a
\*   response was received; ok, granted, denied: the value returned.
ClientIdle == [pc |-> "idle", op |-> "none", holder |-> NoStr, worker |-> NoStr,
               url |-> NoStr, urls |-> <<>>, error |-> NoStr, phase |-> "main",
               i |-> 0, granted |-> <<>>, denied |-> <<>>, attempt |-> 0,
               sent |-> 0, answered |-> FALSE, ok |-> FALSE]

WorkerIds == {c.worker : c \in Callers}

\* No pipeline is running.
NoRun == [pc |-> "none"]

\* No thread is inside claim(), no HTTP operation is in progress.
StepsIdle ==
  /\ lockOwner = NoStr
  /\ thread = [w \in Threads |-> ThreadIdle]
  /\ client = ClientIdle
  /\ delivered = <<>>
  /\ workers = [w \in WorkerIds |-> NoTime]
  /\ run = NoRun

Init ==
  /\ mode \in Modes
  /\ ledger = EmptyLedger
  /\ now = 0
  /\ observed = Ops
  /\ call = NoCall
  /\ active = [c \in Callers |-> [u \in Urls |-> Idle]]
  /\ StepsIdle

\* The urls of a list, as a set.
Range(seq) == {seq[i] : i \in 1..Len(seq)}

\* URLCoordinator.batch_claim: claim() once per url, in list order.
RECURSIVE URLCoordinator_batch_claim_loop(_, _, _, _, _, _, _)
URLCoordinator_batch_claim_loop(data, urls, i, holder, t, granted, denied) ==
  IF i > Len(urls) THEN [data |-> data, granted |-> granted, denied |-> denied]
  ELSE LET r == URLCoordinator_claim(data, urls[i], holder, t) IN
       IF r.ok
       THEN URLCoordinator_batch_claim_loop(r.data, urls, i + 1, holder, t,
                                            Append(granted, urls[i]), denied)
       ELSE URLCoordinator_batch_claim_loop(r.data, urls, i + 1, holder, t,
                                            granted, Append(denied, urls[i]))

URLCoordinator_batch_claim(data, urls, holder, t) ==
  URLCoordinator_batch_claim_loop(data, urls, 1, holder, t, <<>>, <<>>)

\* The caller starts working on every url it was granted.
Activate(c, grantedUrls) ==
  active' = [active EXCEPT ![c] =
     [u \in Urls |-> IF u \in grantedUrls THEN [at |-> now, wiped |-> FALSE]
                     ELSE active[c][u]]]

\* One claim call of caller c, whole (the lock makes it indivisible).
Claim(c, url) ==
  LET r == IF mode = "http" THEN claim(ledger, url, c.holder, c.worker, now)
           ELSE URLCoordinator_claim(ledger, url, c.holder, now)
  IN /\ ledger' = r.data
     /\ call' = Rec([NoCall EXCEPT !.op = "claim", !.url = url, !.who = c.worker,
                               !.ok = r.ok])
     /\ Activate(c, IF r.ok THEN {url} ELSE {})
     /\ UNCHANGED <<mode, now, observed, stepVars>>

\* One batch_claim call of caller c.  The file-backed loop runs here without
\* another caller's call in between.
BatchClaim(c, urls) ==
  LET r == IF mode = "http" THEN batch_claim(ledger, urls, c.holder, c.worker, now)
           ELSE URLCoordinator_batch_claim(ledger, urls, c.holder, now)
  IN /\ ledger' = r.data
     /\ call' = Rec([NoCall EXCEPT !.op = "batch_claim", !.granted = r.granted,
                               !.denied = r.denied])
     /\ Activate(c, Range(r.granted))
     /\ UNCHANGED <<mode, now, observed, stepVars>>

\* mark_done(url) of caller c: the caller's work on url ends.
MarkDone(c, url) ==
  /\ ledger' = IF mode = "http" THEN done(ledger, url, c.worker, now)
               ELSE mark_done(ledger, url, now)
  /\ call' = Rec([NoCall EXCEPT !.op = "done", !.url = url, !.who = c.worker,
                            !.ok = TRUE])
  /\ active' = [active EXCEPT ![c][url] = Idle]
  /\ UNCHANGED <<mode, now, observed, stepVars>>

\* mark_failed(url, error) of caller c.
MarkFailed(c, url, error) ==
  /\ ledger' = IF mode = "http" THEN failed(ledger, url, error, c.worker, now)
               ELSE mark_failed(ledger, url, error, now)
  /\ call' = Rec([NoCall EXCEPT !.op = "failed", !.url = url, !.who = c.worker,
                            !.error = error, !.ok = TRUE])
  /\ active' = [active EXCEPT ![c][url] = Idle]
  /\ UNCHANGED <<mode, now, observed, stepVars>>

\* is_available(url) of caller c.
IsAvailable(c, url) ==
  /\ call' = Rec([NoCall EXCEPT !.op = "available", !.url = url, !.who = c.worker,
                            !.ok = IF mode = "http" THEN available(ledger, url, now)
                                   ELSE is_available(ledger, url, now)])
  /\ UNCHANGED <<mode, ledger, now, observed, active, stepVars>>

\* reset(): the ledger is wiped under the callers that still work on a url.
Reset ==
  /\ ledger' = IF mode = "http" THEN reset(ledger) ELSE URLCoordinator_reset(ledger)
  /\ call' = Rec([NoCall EXCEPT !.op = "reset", !.ok = TRUE])
  /\ active' = [c \in Callers |-> [u \in Urls |->
       IF active[c][u] = Idle THEN Idle ELSE [active[c][u] EXCEPT !.wiped = TRUE]]]
  /\ UNCHANGED <<mode, now, observed, stepVars>>

\* POST /reset_blacklist (the server only): failed entries are deleted.
ResetBlacklist ==
  /\ mode = "http"
  /\ ledger' = reset_blacklist(ledger)
  /\ call' = Rec([NoCall EXCEPT !.op = "reset_blacklist", !.ok = TRUE])
  /\ active' = [c \in Callers |-> [u \in Urls |->
       IF active[c][u] # Idle /\ ledger[u].status = STATUS_FAILED
       THEN [active[c][u] EXCEPT !.wiped = TRUE] ELSE active[c][u]]]
  /\ UNCHANGED <<mode, now, observed, stepVars>>

\* The clock advances, up to the end of the run.
TickTo(limit) ==
  /\ now < limit
  /\ now' = now + 1
  /\ UNCHANGED <<mode, ledger, observed, call, active, stepVars>>

Tick == TickTo(MaxTime)

\* The urls the single-entry specification works on: every handler reads and
\* writes data[url] alone, so one url shows an entry's whole life.
OneUrl == {"A"}

Next ==
  \/ \E c \in Callers, url \in OneUrl : Claim(c, url)
  \/ \E c \in Callers, url \in OneUrl : BatchClaim(c, <<url>>)
  \/ \E c \in Callers, url \in OneUrl : MarkDone(c, url)
  \/ \E c \in Callers, url \in OneUrl, error \in Errors : MarkFailed(c, url, error)
  \/ \E c \in Callers, url \in OneUrl : IsAvailable(c, url)
  \/ Tick

Spec == Init /\ [][Next]_vars

\* The same with the administrative operations.
NextAdmin ==
  \/ Next
  \/ Reset
  \/ ResetBlacklist

SpecAdmin == Init /\ [][NextAdmin]_vars

\* ------------------------------------------------------- batches of urls
\* The calls a worker's batch loop makes (run_dataset_mover, _run_pipeline):
\* one batch_claim per batch, then mark_done or mark_failed for the urls it
\* was granted, before the next batch.
InitBatch ==
  /\ mode = "http"
  /\ ledger = EmptyLedger
  /\ now = 0
  /\ observed = {"batch_claim"}
  /\ call = NoCall
  /\ active = [c \in Callers |-> [u \in Urls |-> Idle]]
  /\ StepsIdle

NextBatch ==
  \/ \E c \in Callers, urls \in UrlLists :
        (\A u \in Urls : active[c][u] = Idle) /\ BatchClaim(c, urls)
  \/ \E c \in Callers, url \in Urls : active[c][url] # Idle /\ MarkDone(c, url)
  \/ \E c \in Callers, url \in Urls, error \in Errors :
        active[c][url] # Idle /\ MarkFailed(c, url, error)
  \/ TickTo(BatchMaxTime)

SpecBatch == InitBatch /\ [][NextBatch]_vars

\* --------------------------------------------- concurrent claim() calls
\* claim() step by step, for a burst of concurrent calls: each thread enters
\* the lock, reads the ledger, then decides, writes and leaves the lock.

\* The duration of a burst of concurrent calls stays below the stale timeout.
RaceWindow == StaleTimeout - 1

InitRace ==
  /\ mode \in Modes
  /\ ledger = EmptyLedger
  /\ now = 0
  /\ observed = {}
  /\ call = NoCall
  /\ active = [c \in Callers |-> [u \in Urls |-> Idle]]
  /\ StepsIdle

\* A thread calls claim(url, holder).
CallClaim(w, url) ==
  /\ thread[w].pc = "idle"
  /\ thread' = [thread EXCEPT ![w] = [ThreadIdle EXCEPT !.pc = "waiting", !.url = url]]
  /\ UNCHANGED <<mode, ledger, now, observed, call, active, lockOwner, client,
                 delivered, workers, run>>

\* Mutant: the thread goes on without waiting for the lock.
Acquire_unlocked(w) ==
  /\ thread[w].pc = "waiting"
  /\ lockOwner' = w
  /\ thread' = [thread EXCEPT ![w].pc = "locked"]
  /\ UNCHANGED <<mode, ledger, now, observed, call, active, client, delivered,
                 workers, run>>

\* with self._lock / with _lock: the thread waits until no thread holds it.
Acquire(w) ==
  /\ thread[w].pc = "waiting"
  /\ lockOwner = NoStr
  /\ lockOwner' = w
  /\ thread' = [thread EXCEPT ![w].pc = "locked"]
  /\ UNCHANGED <<mode, ledger, now, observed, call, active, client, delivered,
                 workers, run>>

\* data = self._read(); entry = data.get(url)  /  entry = _data.get(url)
ReadEntry(w) ==
  /\ thread[w].pc = "locked"
  /\ thread' = [thread EXCEPT ![w].pc = "read", ![w].data = ledger]
  /\ UNCHANGED <<mode, ledger, now, observed, call, active, lockOwner, client,
                 delivered, workers, run>>

\* The decision on the entry read, the write and the return, leaving the lock.
\* The file is written whole from the data read; the server sets _data[url].
DecideAndWrite(w) ==
  LET url == thread[w].url
      r == IF mode = "http"
           THEN claim(thread[w].data, url, HolderOf(w), w, now)
           ELSE URLCoordinator_claim(thread[w].data, url, HolderOf(w), now)
  IN /\ thread[w].pc = "read"
     /\ ledger' = IF ~r.ok THEN ledger
                  ELSE IF mode = "http" THEN [ledger EXCEPT ![url] = r.data[url]]
                  ELSE r.data
     /\ thread' = [thread EXCEPT ![w].pc = "returned", ![w].ok = r.ok]
     /\ lockOwner' = NoStr
     /\ UNCHANGED <<mode, now, observed, call, active, client, delivered, workers, run>>

\* The clock advances within the burst.
RaceTick ==
  /\ now < RaceWindow
  /\ now' = now + 1
  /\ UNCHANGED <<mode, ledger, observed, call, active, stepVars>>

NextRace ==
  \/ \E w \in Threads, url \in Urls : CallClaim(w, url)
  \/ \E w \in Threads : Acquire(w)
  \/ \E w \in Threads : ReadEntry(w)
  \/ \E w \in Threads : DecideAndWrite(w)
  \/ RaceTick

SpecRace == InitRace /\ [][NextRace]_vars

\* ------------------------------------------- batch_claim() url by url
\* batch_claim of one worker step by step, beside the calls of another worker
\* process.  URLCoordinator.batch_claim calls self.claim(url, holder) for each
\* url, and each claim enters and leaves the file lock on its own; the server's
\* /batch_claim runs its whole loop inside one "with _lock".
BatchCaller == CHOOSE c \in Callers : c.worker = "w1"
OtherCaller == CHOOSE c \in Callers : c.worker = "w2"
BatchThread == "t1"

\* The worker calls batch_claim(urls, holder).
CallBatchClaim(urls) ==
  /\ thread[BatchThread].pc = "idle"
  /\ urls # <<>>
  /\ \A u \in Urls : active[BatchCaller][u] = Idle
  /\ thread' = [thread EXCEPT ![BatchThread] =
       [pc |-> "batch", urls |-> urls, i |-> 1, granted |-> <<>>, denied |-> <<>>]]
  /\ UNCHANGED <<mode, ledger, now, observed, call, active, lockOwner, client,
                 delivered, workers, run>>

\* One time through a lock: the server decides every url of the list, the
\* file-backed coordinator decides urls[i] alone.
BatchClaimStep ==
  LET b == thread[BatchThread] IN
  /\ b.pc = "batch"
  /\ IF mode = "http"
     THEN LET r == batch_claim(ledger, b.urls, BatchCaller.holder,
                               BatchCaller.worker, now)
          IN /\ ledger' = r.data
             /\ thread' = [thread EXCEPT ![BatchThread] =
                  [b EXCEPT !.pc = "returned", !.i = Len(b.urls) + 1,
                            !.granted = r.granted, !.denied = r.denied]]
             /\ Activate(BatchCaller, Range(r.granted))
     ELSE LET url == b.urls[b.i]
              r == URLCoordinator_claim(ledger, url, BatchCaller.holder, now)
          IN /\ ledger' = r.data
             /\ thread' = [thread EXCEPT ![BatchThread] =
                  [b EXCEPT !.pc = IF b.i = Len(b.urls) THEN "returned" ELSE "batch",
                            !.i = b.i + 1,
                            !.granted = IF r.ok THEN Append(@, url) ELSE @,
                            !.denied = IF r.ok THEN @ ELSE Append(@, url)]]
             /\ Activate(BatchCaller, IF r.ok THEN {url} ELSE {})
  /\ UNCHANGED <<mode, now, observed, call, lockOwner, client, delivered,
                 workers, run>>

\* batch_claim returns (granted, denied).
BatchClaimReturn ==
  /\ thread[BatchThread].pc = "returned"
  /\ thread' = [thread EXCEPT ![BatchThread] = ThreadIdle]
  /\ UNCHANGED <<mode, ledger, now, observed, call, active, lockOwner, client,
                 delivered, workers, run>>

InitFileBatch ==
  /\ mode \in Modes
  /\ ledger = EmptyLedger
  /\ now = 0
  /\ observed = {}
  /\ call = NoCall
  /\ active = [c \in Callers |-> [u \in Urls |-> Idle]]
  /\ StepsIdle

NextFileBatch ==
  \/ \E urls \in UrlLists : CallBatchClaim(urls)
  \/ BatchClaimStep
  \/ BatchClaimReturn
  \/ \E url \in Urls : Claim(OtherCaller, url)
  \/ \E c \in Callers, url \in Urls :
        /\ active[c][url] # Idle
        /\ c = BatchCaller => thread[BatchThread].pc = "idle"
        /\ MarkDone(c, url)
  \/ \E c \in Callers, url \in Urls, error \in Errors :
        /\ active[c][url] # Idle
        /\ c = BatchCaller => thread[BatchThread].pc = "idle"
        /\ MarkFailed(c, url, error)
  \/ TickTo(BatchMaxTime)

SpecFileBatch == InitFileBatch /\ [][NextFileBatch]_vars

\* ------------------------------------------------------ HTTPCoordinator
\* The HTTP client's operations request by request, against the server's
\* handlers, over a network that loses requests and responses.

\* What _post/_get hands back: a parsed JSON body, or None.
NoResponse == [none |-> TRUE, ok |-> FALSE, available |-> FALSE,
               granted |-> <<>>, denied |-> <<>>]
Json == [NoResponse EXCEPT !.none = FALSE]

\* Mutant: an unanswered claim counts as granted.
claim_default_granted == [Json EXCEPT !.ok = TRUE]

\* default={"ok": False} of claim.
claim_default == [Json EXCEPT !.ok = FALSE]

\* The default= argument each operation passes to _post/_get.
DefaultOf(path) ==
  IF path = "claim" THEN claim_default
  ELSE IF path = "batch_claim" THEN NoResponse
  ELSE IF path = "available" THEN [Json EXCEPT !.available = TRUE]
  ELSE [Json EXCEPT !.ok = FALSE]

\* POST /heartbeat: _workers[worker] = {**body, "last_seen": time.time()}.
heartbeat(wk, worker, t) == [wk EXCEPT ![worker] = t]

\* The server's handler of one request:
\* [data: _data afterwards, workers: _workers afterwards, resp: the JSON body].
Serve(data, wk, path, url, urls, holder, worker, error, t) ==
  IF path = "claim"
  THEN LET r == claim(data, url, holder, worker, t) IN
       [data |-> r.data, workers |-> wk, resp |-> [Json EXCEPT !.ok = r.ok]]
  ELSE IF path = "batch_claim"
  THEN LET r == batch_claim(data, urls, holder, worker, t) IN
       [data |-> r.data, workers |-> wk,
        resp |-> [Json EXCEPT !.granted = r.granted, !.denied = r.denied]]
  ELSE IF path = "done"
  THEN [data |-> done(data, url, worker, t), workers |-> wk,
        resp |-> [Json EXCEPT !.ok = TRUE]]
  ELSE IF path = "failed"
  THEN [data |-> failed(data, url, error, worker, t), workers |-> wk,
        resp |-> [Json EXCEPT !.ok = TRUE]]
  ELSE IF path = "available"
  THEN [data |-> data, workers |-> wk,
        resp |-> [Json EXCEPT !.available = available(data, url, t)]]
  ELSE IF path = "reset"
  THEN [data |-> reset(data), workers |-> wk, resp |-> [Json EXCEPT !.ok = TRUE]]
  ELSE [data |-> data, workers |-> heartbeat(wk, worker, t),
        resp |-> [Json EXCEPT !.ok = TRUE]]

\* The path and url of the request the client is sending: the operation's
\* own, or the individual claim of the fallback loop.
PathOf(cl) == IF cl.phase = "fallback" THEN "claim" ELSE cl.op
UrlOf(cl) == IF cl.phase = "fallback" THEN cl.urls[cl.i] ELSE cl.url

ServeCurrent ==
  Serve(ledger, workers, PathOf(client), UrlOf(client), client.urls,
        client.holder, client.worker, client.error, now)

\* The deliveries of the request in flight, kept when they are observed.
Delivery(r) ==
  IF "delivery" \in observed
  THEN Append(delivered, [resp |-> r.resp, data |-> r.data])
  ELSE delivered

InitHttp ==
  /\ mode = "http"
  /\ ledger = EmptyLedger
  /\ now = 0
  /\ observed = {}
  /\ call = NoCall
  /\ active = [c \in Callers |-> [u \in Urls |-> Idle]]
  /\ StepsIdle

\* The caller starts an operation of the HTTPCoordinator.  batch_claim of an
\* empty list returns at once; every other operation enters _post or _get.
Begin(c, op, url, urls, error) ==
  /\ client.pc \in {"idle", "returned"}
  /\ client' = [ClientIdle EXCEPT
        !.pc = IF op = "batch_claim" /\ urls = <<>> THEN "returned" ELSE "request",
        !.op = op, !.holder = c.holder, !.worker = c.worker,
        !.url = url, !.urls = urls, !.error = error]
  /\ delivered' = <<>>
  /\ UNCHANGED <<mode, ledger, now, observed, call, active, lockOwner, thread,
                 workers, run>>

\* The client after _post/_get handed back v, one more request sent:
\* the operation returns, or batch_claim enters its fallback loop.
After(v, gotAnswer) ==
  LET cl == [client EXCEPT !.sent = client.sent + 1,
                           !.answered = client.answered \/ gotAnswer]
      granted == ~v.none /\ v.ok
  IN IF cl.phase = "fallback"
     THEN [cl EXCEPT !.pc = "loop",
             !.granted = IF granted THEN Append(cl.granted, cl.urls[cl.i])
                         ELSE cl.granted,
             !.denied = IF granted THEN cl.denied
                        ELSE Append(cl.denied, cl.urls[cl.i])]
     ELSE IF cl.op = "batch_claim"
     THEN IF v.none
          THEN [cl EXCEPT !.pc = "loop", !.phase = "fallback", !.i = 0]
          ELSE [cl EXCEPT !.pc = "returned", !.granted = v.granted,
                          !.denied = v.denied]
     ELSE IF cl.op = "available"
     THEN [cl EXCEPT !.pc = "returned", !.ok = ~v.none /\ v.available]
     ELSE [cl EXCEPT !.pc = "returned", !.ok = granted]

\* The client after an attempt that raised ConnectionError or Timeout:
\* the second attempt after the backoff, or the default.
AfterFailure ==
  IF client.attempt = 0
  THEN [client EXCEPT !.attempt = 1, !.sent = client.sent + 1]
  ELSE After(DefaultOf(PathOf(client)), FALSE)

\* The request reaches the server and its response reaches the client.
Responded ==
  /\ client.pc = "request"
  /\ ledger' = ServeCurrent.data
  /\ workers' = ServeCurrent.workers
  /\ delivered' = Delivery(ServeCurrent)
  /\ client' = After(ServeCurrent.resp, TRUE)
  /\ UNCHANGED <<mode, now, observed, call, active, lockOwner, thread, run>>

\* requests.ConnectionError: the request never reaches the server.
ConnectionFailed ==
  /\ client.pc = "request"
  /\ client' = AfterFailure
  /\ UNCHANGED <<mode, ledger, now, observed, call, active, lockOwner, thread,
                 delivered, workers, run>>

\* requests.Timeout after the server handled the request: the response is lost.
ResponseLost ==
  /\ client.pc = "request"
  /\ ledger' = ServeCurrent.data
  /\ workers' = ServeCurrent.workers
  /\ delivered' = Delivery(ServeCurrent)
  /\ client' = AfterFailure
  /\ UNCHANGED <<mode, now, observed, call, active, lockOwner, thread, run>>

\* Any other requests.RequestException (an HTTP error status from a gateway):
\* the default at once, without a second attempt.
RequestError ==
  /\ client.pc = "request"
  /\ client' = After(DefaultOf(PathOf(client)), FALSE)
  /\ UNCHANGED <<mode, ledger, now, observed, call, active, lockOwner, thread,
                 delivered, workers, run>>

\* for url in urls: self.claim(url, holder) -- the next individual claim of
\* the fallback loop, or the return of (granted, denied).
FallbackLoop ==
  /\ client.pc = "loop"
  /\ IF client.i = Len(client.urls)
     THEN client' = [client EXCEPT !.pc = "returned"] /\ UNCHANGED delivered
     ELSE /\ client' = [client EXCEPT !.pc = "request", !.i = client.i + 1,
                                      !.attempt = 0]
          /\ delivered' = <<>>
  /\ UNCHANGED <<mode, ledger, now, observed, call, active, lockOwner, thread,
                 workers, run>>

HttpTick ==
  /\ now < BatchMaxTime
  /\ now' = now + 1
  /\ UNCHANGED <<mode, ledger, observed, call, active, stepVars>>

\* The worker whose HTTPCoordinator is followed.
HttpCaller == CHOOSE c \in Callers : c.worker = "w1"

NextHttp ==
  \/ \E op \in {"claim", "done", "available"}, url \in OneUrl :
        Begin(HttpCaller, op, url, <<>>, NoStr)
  \/ \E url \in OneUrl, error \in Errors :
        Begin(HttpCaller, "failed", url, <<>>, error)
  \/ \E urls \in UrlLists : Begin(HttpCaller, "batch_claim", NoStr, urls, NoStr)
  \/ Begin(HttpCaller, "reset", NoStr, <<>>, NoStr)
  \/ Responded
  \/ ConnectionFailed
  \/ ResponseLost
  \/ RequestError
  \/ FallbackLoop
  \/ HttpTick

SpecHttp == InitHttp /\ [][NextHttp]_vars

\* The same with the heartbeat, and with the deliveries of each request kept.
InitDelivery ==
  /\ mode = "http"
  /\ ledger = EmptyLedger
  /\ now = 0
  /\ observed = {"delivery"}
  /\ call = NoCall
  /\ active = [c \in Callers |-> [u \in Urls |-> Idle]]
  /\ StepsIdle

NextDelivery ==
  \/ NextHttp
  \/ Begin(HttpCaller, "heartbeat", NoStr, <<>>, NoStr)

SpecDelivery == InitDelivery /\ [][NextDelivery]_vars

\* ---------------------------------------------------- build_coordinator
\* build_coordinator(config) with coordination enabled: the worker gets a new
\* coordinator object.  File mode wipes the file when
\* coordination_reset_on_start is set; HTTP mode ignores the setting.
build_coordinator(data, m, reset_on_start) ==
  IF m = "http" THEN data
  ELSE IF reset_on_start THEN URLCoordinator_reset(data) ELSE data

BuildCoordinator(reset_on_start) ==
  /\ client.pc \in {"idle", "returned"}
  /\ ledger' = build_coordinator(ledger, mode, reset_on_start)
  /\ client' = [ClientIdle EXCEPT !.worker = HttpCaller.worker]
  /\ delivered' = <<>>
  /\ UNCHANGED <<mode, now, observed, call, active, lockOwner, thread, workers, run>>

\* Everything an HTTP-mode worker can do with its coordinator.
NextWorker ==
  \/ NextHttp
  \/ \E reset_on_start \in BOOLEAN : BuildCoordinator(reset_on_start)

SpecWorker == InitHttp /\ [][NextWorker]_vars

\* --------------------------------------------- workers sharing one file
\* load_config: config.setdefault("coordination_reset_on_start", True).
coordination_reset_on_start == TRUE

\* A worker process starts in file mode with the default configuration, beside
\* the workers that share its coordination file: build_coordinator(config).
StartWorker(c) ==
  /\ \A u \in Urls : active[c][u] = Idle
  /\ ledger' = build_coordinator(ledger, mode, coordination_reset_on_start)
  /\ active' = [d \in Callers |-> [u \in Urls |->
       IF active[d][u] # Idle /\ ledger'[u] = Absent
       THEN [active[d][u] EXCEPT !.wiped = TRUE] ELSE active[d][u]]]
  /\ UNCHANGED <<mode, now, observed, call, stepVars>>

InitFileWorkers ==
  /\ mode = "file"
  /\ ledger = EmptyLedger
  /\ now = 0
  /\ observed = {"batch_claim"}
  /\ call = NoCall
  /\ active = [c \in Callers |-> [u \in Urls |-> Idle]]
  /\ StepsIdle

NextFileWorkers ==
  \/ \E c \in Callers : StartWorker(c)
  \/ \E c \in Callers, urls \in UrlLists :
        (\A u \in Urls : active[c][u] = Idle) /\ BatchClaim(c, urls)
  \/ \E c \in Callers, url \in Urls : active[c][url] # Idle /\ MarkDone(c, url)
  \/ \E c \in Callers, url \in Urls, error \in Errors :
        active[c][url] # Idle /\ MarkFailed(c, url, error)
  \/ TickTo(BatchMaxTime)

SpecFileWorkers == InitFileWorkers /\ [][NextFileWorkers]_vars

\* ------------------------------------------------ TabState, the slot ticks
\* The ticks of a timed wait before time_in_state must have passed its limit.
TimerTicks == 1
\* The largest count the conversion's progress text shows.
MaxProgress == 1

PENDING == "pending"
NAVIGATING == "navigating"
DETAIL_WAIT == "detail_wait"
SCANNING == "scanning"
NULL_CLICKED == "null_clicked"
CONVERTING == "converting"
READY == "ready"
ADD_CLICKED == "add_clicked"
CONFIRMING == "confirming"
VERIFYING == "verifying"
DONE == "done"
ERROR == "error"
BLACKLISTED == "blacklisted"

MAX_CARD_RETRIES == 2
BLACKLIST_THRESHOLD == 3

CardTypes == {"start_annotating", "add_to_dataset", "submit_for_review"}

\* TabState.__init__(job_url).  waited: the ticks since state_entered_at (in
\* CONVERTING: since last_progress_time).
TabState(job_url) ==
  [job_url |-> job_url, status |-> PENDING, retry_count |-> 0,
   consecutive_errors |-> 0, card_type |-> NoStr, _null_retry |-> 0,
   _add_retry |-> 0, _nav_retries |-> 0, last_progress_count |-> 0, waited |-> 0]

\* TabState.transition(new_status).
transition(tab, new_status) ==
  [tab EXCEPT !.status = new_status, !.waited = 0,
     !.consecutive_errors = IF new_status = ERROR THEN @ + 1
                            ELSE IF new_status = DONE THEN 0 ELSE @]

\* TabState.reset_for(job_url, is_retry).
reset_for(tab, job_url, is_retry) ==
  [TabState(job_url) EXCEPT
     !.retry_count = IF is_retry THEN tab.retry_count + 1 ELSE 0,
     !.consecutive_errors = IF is_retry THEN tab.consecutive_errors ELSE 0]

\* What one tick finds on the page.
\*   raised: the tick's try block raises; seen: the element the tick looks for
\*   is there (the click succeeded); expired: the clock passed the state's
\*   limit; gate: the first gate of tick_detail_wait that is not passed (0:
\*   none); card_type, unannotated, swal, current, done: what the page shows.
Quiet == [raised |-> FALSE, seen |-> FALSE, expired |-> FALSE, gate |-> 0,
          card_type |-> "start_annotating", unannotated |-> 0, swal |-> "none",
          current |-> 0, done |-> FALSE]

\* The findings that make a difference to the tick of each state.
Findings(status) ==
  {[Quiet EXCEPT !.raised = TRUE]} \cup
  IF status \in {PENDING, VERIFYING} THEN {Quiet, [Quiet EXCEPT !.seen = TRUE]}
  ELSE IF status = DETAIL_WAIT
  THEN {[Quiet EXCEPT !.gate = g, !.expired = e, !.card_type = t] :
          g \in {0, 1, 2, 3, 5}, e \in BOOLEAN, t \in CardTypes}
  ELSE IF status = SCANNING
  THEN {[Quiet EXCEPT !.unannotated = u, !.seen = b] : u \in {0, 1}, b \in BOOLEAN}
  ELSE IF status = NULL_CLICKED
  THEN {[Quiet EXCEPT !.swal = w, !.expired = e] :
          w \in {"confirm", "progress", "none"}, e \in BOOLEAN}
  ELSE IF status = CONVERTING
  THEN {[Quiet EXCEPT !.current = n, !.done = d, !.expired = e] :
          n \in 0..MaxProgress, d \in BOOLEAN, e \in BOOLEAN}
  ELSE {[Quiet EXCEPT !.seen = b, !.expired = e] : b \in BOOLEAN, e \in BOOLEAN}

\* time_in_state > limit: the clock says so, or the wait has lasted its ticks.
Expired(tab, P) == P.expired \/ tab.waited >= TimerTicks

\* Mutant: a wait that never comes nearer to its limit.
Waiting_forever(tab) == tab

\* A tick that returns with nothing found: the wait goes on.
Waiting(tab) ==
  [tab EXCEPT !.waited = IF @ < TimerTicks THEN @ + 1 ELSE @]

\* tab.state_entered_at = time.time(): the wait starts again.
Restart(tab) == [tab EXCEPT !.waited = 0]

tick_pending(tab, P) ==
  IF P.raised THEN transition(tab, ERROR) ELSE transition(tab, NAVIGATING)

tick_navigating(tab, P) ==
  IF P.raised THEN transition(tab, ERROR)
  ELSE IF P.seen THEN transition(tab, DETAIL_WAIT)
  ELSE IF Expired(tab, P) THEN transition(tab, ERROR)
  ELSE Waiting(tab)

tick_detail_wait(tab, P) ==
  IF P.raised THEN transition(tab, ERROR)
  ELSE IF P.gate \in {1, 3}
  THEN IF Expired(tab, P)
       THEN IF tab._nav_retries < 1
            THEN Restart([tab EXCEPT !._nav_retries = @ + 1])
            ELSE transition(tab, ERROR)
       ELSE Waiting(tab)
  ELSE IF P.gate \in {2, 5}
  THEN IF Expired(tab, P) THEN transition(tab, ERROR) ELSE Waiting(tab)
  ELSE transition([tab EXCEPT !.card_type = P.card_type], SCANNING)

tick_scanning(tab, P) ==
  IF P.raised THEN transition(tab, ERROR)
  ELSE IF tab.card_type \in {"add_to_dataset", "submit_for_review"}
  THEN transition(tab, READY)
  ELSE IF P.unannotated = 0 THEN transition(tab, READY)
  ELSE IF P.seen THEN transition(tab, NULL_CLICKED)
  ELSE IF tab._null_retry + 1 >= 3
  THEN transition([tab EXCEPT !._null_retry = @ + 1], READY)
  ELSE [tab EXCEPT !._null_retry = @ + 1]

\* Mutant: when the dialog never appears the slot goes back to scan again.
tick_null_clicked_rescans(tab, P) ==
  IF P.raised THEN transition(tab, ERROR)
  ELSE IF P.swal = "confirm"
  THEN transition([tab EXCEPT !.last_progress_count = 0], CONVERTING)
  ELSE IF P.swal = "progress" THEN transition(tab, CONVERTING)
  ELSE IF Expired(tab, P)
  THEN IF tab._null_retry < 3
       THEN Restart([tab EXCEPT !._null_retry = @ + 1])
       ELSE transition(tab, SCANNING)
  ELSE Waiting(tab)

tick_null_clicked(tab, P) ==
  IF P.raised THEN transition(tab, ERROR)
  ELSE IF P.swal = "confirm"
  THEN transition([tab EXCEPT !.last_progress_count = 0], CONVERTING)
  ELSE IF P.swal = "progress" THEN transition(tab, CONVERTING)
  ELSE IF Expired(tab, P)
  THEN IF tab._null_retry < 3
       THEN Restart([tab EXCEPT !._null_retry = @ + 1])
       ELSE transition(tab, READY)
  ELSE Waiting(tab)

\* Mutant: the stall check does not look at completion.
tick_converting_stall_first(tab, P) ==
  LET progressed == P.current > tab.last_progress_count
      t == IF progressed
           THEN Restart([tab EXCEPT !.last_progress_count = P.current])
           ELSE tab
  IN IF P.raised THEN transition(tab, ERROR)
     ELSE IF ~progressed /\ Expired(tab, P) THEN transition(t, ERROR)
     ELSE IF P.done THEN transition(t, READY)
     ELSE IF progressed THEN t
     ELSE Waiting(t)

tick_converting(tab, P) ==
  LET progressed == P.current > tab.last_progress_count
      t == IF progressed
           THEN Restart([tab EXCEPT !.last_progress_count = P.current])
           ELSE tab
  IN IF P.raised THEN transition(tab, ERROR)
     ELSE IF ~progressed /\ Expired(tab, P) /\ ~P.done THEN transition(t, ERROR)
     ELSE IF P.done THEN transition(t, READY)
     ELSE IF progressed THEN t
     ELSE Waiting(t)

tick_ready(tab, P) ==
  IF P.raised THEN transition(tab, ERROR)
  ELSE IF P.seen THEN transition(tab, ADD_CLICKED)
  ELSE IF Expired(tab, P)
  THEN IF tab._add_retry < 1
       THEN Restart([tab EXCEPT !._add_retry = @ + 1])
       ELSE transition(tab, ERROR)
  ELSE Waiting(tab)

tick_add_clicked(tab, P) ==
  IF P.raised THEN transition(tab, ERROR)
  ELSE IF P.seen THEN transition(tab, CONFIRMING)
  ELSE IF Expired(tab, P)
  THEN IF tab._add_retry < 2
       THEN Restart([tab EXCEPT !._add_retry = @ + 1])
       ELSE transition(tab, ERROR)
  ELSE Waiting(tab)

tick_confirming(tab, P) ==
  IF P.raised THEN transition(tab, VERIFYING)
  ELSE IF P.seen THEN transition(tab, VERIFYING)
  ELSE IF Expired(tab, P) THEN transition(tab, VERIFYING)
  ELSE Waiting(tab)

\* Mutant: an inconclusive or failed check sends the slot back to add again.
tick_verifying_retries(tab, P) ==
  IF P.seen /\ ~P.raised THEN transition(tab, DONE) ELSE transition(tab, READY)

\* tick_verifying: mark_done and DONE, whether the check redirected (seen),
\* found the job still there, or raised.
tick_verifying(tab, P) == transition(tab, DONE)

\* _tick_slot_fast with an enabled coordinator whose entry for the url is
\* entry: [tab: the slot afterwards, mark_done: the tick called mark_done].
_tick_slot_fast(tab, P, entry) ==
  IF tab.status = PENDING /\ entry # Absent /\ entry.status = STATUS_DONE
  THEN [tab |-> transition(tab, DONE), mark_done |-> FALSE]
  ELSE IF tab.status = PENDING THEN [tab |-> tick_pending(tab, P), mark_done |-> FALSE]
  ELSE IF tab.status = NAVIGATING
  THEN [tab |-> tick_navigating(tab, P), mark_done |-> FALSE]
  ELSE IF tab.status = DETAIL_WAIT
  THEN [tab |-> tick_detail_wait(tab, P), mark_done |-> FALSE]
  ELSE IF tab.status = SCANNING
  THEN [tab |-> tick_scanning(tab, P), mark_done |-> FALSE]
  ELSE IF tab.status = NULL_CLICKED
  THEN [tab |-> tick_null_clicked(tab, P), mark_done |-> FALSE]
  ELSE IF tab.status = CONVERTING
  THEN [tab |-> tick_converting(tab, P), mark_done |-> FALSE]
  ELSE IF tab.status = READY THEN [tab |-> tick_ready(tab, P), mark_done |-> FALSE]
  ELSE IF tab.status = ADD_CLICKED
  THEN [tab |-> tick_add_clicked(tab, P), mark_done |-> FALSE]
  ELSE IF tab.status = CONFIRMING
  THEN [tab |-> tick_confirming(tab, P), mark_done |-> FALSE]
  ELSE IF tab.status = VERIFYING
  THEN [tab |-> tick_verifying(tab, P), mark_done |-> TRUE]
  ELSE [tab |-> tab, mark_done |-> FALSE]

\* ----------------------------------------------------------- _run_pipeline
\* The most slots a run is given.
MaxSlots == 2

Keys == {"A", "B", "C"}
NoKeys == [k \in Keys |-> Absent]

\* What the pages of a key may show.  "any": anything.  "brisk": a card that
\* needs no conversion, and every tick finds what moves the slot on or raises.
\* "ok": brisk without an error.  "err": brisk, and the confirm modal of its
\* add-to-dataset never shows, so that every attempt ends in ERROR.
Fates == {"any", "brisk", "cards", "ok", "err"}
AnyFate == [k \in Keys |-> "any"]
BriskFate == [k \in Keys |-> "brisk"]
OnlyBFails == [k \in Keys |-> IF k = "B" THEN "err" ELSE "ok"]
CardsFate == [k \in Keys |-> "cards"]

\* The runs followed: one slot with pages of any kind, two slots with brisk
\* pages.
Runs ==
  {[job_urls |-> <<"A">>, num_slots |-> 1, fate |-> AnyFate],
   [job_urls |-> <<"A", "B">>, num_slots |-> 1, fate |-> AnyFate],
   [job_urls |-> <<"A", "B">>, num_slots |-> MaxSlots, fate |-> BriskFate],
   [job_urls |-> <<"A", "B", "C">>, num_slots |-> 1, fate |-> BriskFate],
   [job_urls |-> <<"A", "B", "C">>, num_slots |-> MaxSlots, fate |-> BriskFate],
   [job_urls |-> <<"A", "B", "C">>, num_slots |-> 2, fate |-> OnlyBFails]}

\* _run_pipeline(job_urls, context, num_slots) when it is called.
\*   reported: the urls of the mark_failed calls, in order; errs: per url, the
\*   attempts that ended in ERROR; granted: what batch_claim granted;
\*   counted: per url, the times a slot holding it was counted in moved.
RunStart(job_urls, num_slots, fate) ==
  [pc |-> "start", i |-> 0, job_urls |-> job_urls, num_slots |-> num_slots,
   fate |-> fate, granted |-> <<>>, queue |-> <<>>, slots |-> <<>>, moved |-> 0,
   permanently_failed |-> <<>>, retry_tracker |-> [k \in Keys |-> 0],
   blacklisted_urls |-> {}, reported |-> <<>>, errs |-> [k \in Keys |-> 0],
   counted |-> [k \in Keys |-> 0]]

InitPipeline ==
  /\ mode \in Modes
  /\ ledger \in {NoKeys, [NoKeys EXCEPT !["C"] = [Absent EXCEPT
                    !.status = STATUS_DONE, !.worker = "w2", !.updated_at = 0]]}
  /\ now = 0
  /\ observed = {}
  /\ call = NoCall
  /\ active = [c \in Callers |-> [u \in Urls |-> Idle]]
  /\ lockOwner = NoStr
  /\ thread = [w \in Threads |-> ThreadIdle]
  /\ client = ClientIdle
  /\ delivered = <<>>
  /\ workers = [w \in WorkerIds |-> NoTime]
  /\ run \in {RunStart(c.job_urls, c.num_slots, c.fate) : c \in Runs}

Min(a, b) == IF a < b THEN a ELSE b

\* The worker's coordinator calls.
PipelineBatchClaim(data, urls) ==
  IF mode = "http"
  THEN batch_claim(data, urls, HttpCaller.holder, HttpCaller.worker, now)
  ELSE URLCoordinator_batch_claim(data, urls, HttpCaller.holder, now)

\* Mutant: the report of a failed url never reaches the coordinator.
PipelineMarkFailed_dropped(data, url) == data

PipelineMarkFailed(data, url) ==
  IF mode = "http" THEN failed(data, url, "e1", HttpCaller.worker, now)
  ELSE mark_failed(data, url, "e1", now)

PipelineMarkDone(data, url) ==
  IF mode = "http" THEN done(data, url, HttpCaller.worker, now)
  ELSE mark_done(data, url, now)

\* The claim phase and the creation of the slots.
ClaimPhase ==
  LET r == PipelineBatchClaim(ledger, run.job_urls)
      slot_count == Min(run.num_slots, Len(r.granted))
  IN /\ run.pc = "start"
     /\ ledger' = r.data
     /\ run' = IF r.granted = <<>>
               THEN [run EXCEPT !.pc = "returned"]
               ELSE [run EXCEPT !.pc = "check", !.granted = r.granted,
                       !.slots = [n \in 1..slot_count |-> TabState(r.granted[n])],
                       !.queue = SubSeq(r.granted, slot_count + 1, Len(r.granted))]
     /\ UNCHANGED <<mode, now, observed, call, active, lockOwner, thread, client,
                    delivered, workers>>

\* active = [s for s in slots if s.status not in (DONE, ERROR, BLACKLISTED)
\*           and not s.status.startswith("_")]
ActiveSlots(r) ==
  {n \in 1..Len(r.slots) :
     r.slots[n].status \notin {DONE, ERROR, BLACKLISTED, "_counted", "_recycled"}}

\* Mutant: the final accounting leaves the DONE slots uncounted.
RECURSIVE final_accounting_skips_done(_, _)
final_accounting_skips_done(r, n) ==
  IF n > Len(r.slots) THEN r
  ELSE LET slot == r.slots[n] IN
       IF slot.status = ERROR
       THEN final_accounting_skips_done(
              [r EXCEPT !.permanently_failed = Append(@, slot.job_url),
                        !.reported = Append(@, slot.job_url)], n + 1)
       ELSE final_accounting_skips_done(r, n + 1)

\* Mutant: the final accounting counts the slots the loop has counted too.
RECURSIVE final_accounting_counts_markers(_, _)
final_accounting_counts_markers(r, n) ==
  IF n > Len(r.slots) THEN r
  ELSE LET slot == r.slots[n] IN
       IF slot.status \in {DONE, "_counted"}
       THEN final_accounting_counts_markers(
              [r EXCEPT !.moved = @ + 1, !.counted[slot.job_url] = @ + 1], n + 1)
       ELSE IF slot.status = ERROR
       THEN final_accounting_counts_markers(
              [r EXCEPT !.permanently_failed = Append(@, slot.job_url),
                        !.reported = Append(@, slot.job_url)], n + 1)
       ELSE final_accounting_counts_markers(r, n + 1)

\* The final accounting of slots n.. after the loop: a DONE slot is counted,
\* an ERROR slot is failed for good.
RECURSIVE final_accounting(_, _)
final_accounting(r, n) ==
  IF n > Len(r.slots) THEN r
  ELSE LET slot == r.slots[n] IN
       IF slot.status = DONE
       THEN final_accounting([r EXCEPT !.moved = @ + 1,
                                       !.counted[slot.job_url] = @ + 1], n + 1)
       ELSE IF slot.status = ERROR
       THEN final_accounting(
              [r EXCEPT !.permanently_failed = Append(@, slot.job_url),
                        !.reported = Append(@, slot.job_url)], n + 1)
       ELSE final_accounting(r, n + 1)

\* The mark_failed calls for urls[n..], in order.
RECURSIVE MarkAllFailed(_, _, _)
MarkAllFailed(data, urls, n) ==
  IF n > Len(urls) THEN data
  ELSE MarkAllFailed(PipelineMarkFailed(data, urls[n]), urls, n + 1)

\* while True: "if not active and not queue: break", then the final
\* accounting and the return of (moved, permanently_failed).
EndRun ==
  LET r == final_accounting(run, 1) IN
  /\ run.pc = "check"
  /\ ActiveSlots(run) = {} /\ run.queue = <<>>
  /\ run' = [r EXCEPT !.pc = "returned"]
  /\ ledger' = MarkAllFailed(ledger, r.reported, Len(run.reported) + 1)
  /\ UNCHANGED <<mode, now, observed, call, active, lockOwner, thread, client,
                 delivered, workers>>

\* The loop goes on: a round over the slots begins.
BeginRound ==
  /\ run.pc = "check"
  /\ ~(ActiveSlots(run) = {} /\ run.queue = <<>>)
  /\ run' = [run EXCEPT !.pc = "slots", !.i = 1]
  /\ UNCHANGED <<mode, ledger, now, observed, call, active, lockOwner, thread,
                 client, delivered, workers>>

\* for slot in slots: the next slot, or the end of the round.
NextSlot(r) ==
  IF r.i = Len(r.slots) THEN [r EXCEPT !.pc = "check", !.i = 0]
  ELSE [r EXCEPT !.i = @ + 1]

\* Mutant: a url is requeued whatever its retry count.
Account_requeue_always(r, n) ==
  LET slot == r.slots[n]
      failed_url == slot.job_url
      retries == r.retry_tracker[failed_url]
  IN IF slot.status = DONE
     THEN [r EXCEPT !.moved = @ + 1, !.counted[slot.job_url] = @ + 1,
             !.slots[n] = [transition(slot, DONE) EXCEPT !.status = "_counted"]]
     ELSE IF slot.status = ERROR
     THEN IF slot.consecutive_errors >= BLACKLIST_THRESHOLD
          THEN [r EXCEPT !.blacklisted_urls = @ \cup {failed_url},
                  !.permanently_failed = Append(@, failed_url),
                  !.reported = Append(@, failed_url),
                  !.slots[n].status = BLACKLISTED]
          ELSE [r EXCEPT !.retry_tracker[failed_url] = retries + 1,
                  !.queue = Append(@, failed_url),
                  !.slots[n].status = "_recycled"]
     ELSE r

\* The recycling of slot n by its status: counted, blacklisted, requeued or
\* given up.
Account(r, n) ==
  LET slot == r.slots[n]
      failed_url == slot.job_url
      retries == r.retry_tracker[failed_url]
  IN IF slot.status = DONE
     THEN [r EXCEPT !.moved = @ + 1, !.counted[slot.job_url] = @ + 1,
             !.slots[n] = [transition(slot, DONE) EXCEPT !.status = "_counted"]]
     ELSE IF slot.status = ERROR
     THEN IF slot.consecutive_errors >= BLACKLIST_THRESHOLD
          THEN [r EXCEPT !.blacklisted_urls = @ \cup {failed_url},
                  !.permanently_failed = Append(@, failed_url),
                  !.reported = Append(@, failed_url),
                  !.slots[n].status = BLACKLISTED]
          ELSE IF retries < MAX_CARD_RETRIES
          THEN [r EXCEPT !.retry_tracker[failed_url] = retries + 1,
                  !.queue = Append(@, failed_url),
                  !.slots[n].status = "_recycled"]
          ELSE [r EXCEPT !.permanently_failed = Append(@, failed_url),
                  !.reported = Append(@, failed_url),
                  !.slots[n].status = "_recycled"]
     ELSE r

\* Mutant: the url taken from the queue is dropped.
Assign_drops(r, n) ==
  IF r.slots[n].status \in {"_counted", "_recycled", BLACKLISTED} /\ r.queue # <<>>
  THEN [r EXCEPT !.queue = Tail(@)]
  ELSE r

\* "Assign next URL from queue".
Assign(r, n) ==
  IF r.slots[n].status \in {"_counted", "_recycled", BLACKLISTED} /\ r.queue # <<>>
  THEN LET next_url == Head(r.queue) IN
       IF next_url \in r.blacklisted_urls
       THEN [r EXCEPT !.queue = Tail(@)]
       ELSE [r EXCEPT !.queue = Tail(@),
               !.slots[n] = reset_for(r.slots[n], next_url,
                                      r.retry_tracker[next_url] > 0)]
  ELSE r

\* One pass of the for loop over a finished slot.
RecycleSlot ==
  LET n == run.i
      r == Account(run, n)
  IN /\ run.pc = "slots"
     /\ run.slots[n].status \in {DONE, ERROR, BLACKLISTED}
     /\ run' = NextSlot(Assign(r, n))
     /\ ledger' = MarkAllFailed(ledger, r.reported, Len(run.reported) + 1)
     /\ UNCHANGED <<mode, now, observed, call, active, lockOwner, thread, client,
                    delivered, workers>>

\* The findings the fate of the slot's key allows for its tick.
Allowed(tab, entry, fate) ==
  {P \in Findings(tab.status) :
     LET st == _tick_slot_fast(tab, P, entry).tab.status IN
     /\ (fate # "any" /\ tab.status \notin {"_counted", "_recycled"})
          => st # tab.status
     /\ (fate \notin {"any", "cards"} /\ tab.status = DETAIL_WAIT)
          => P.card_type = "add_to_dataset"
     /\ fate = "ok" => st # ERROR
     /\ fate = "err" => st # CONFIRMING}

\* One pass of the for loop over any other slot: _tick_slot_fast.
TickSlot ==
  LET n == run.i
      slot == run.slots[n]
      url == slot.job_url
  IN /\ run.pc = "slots"
     /\ slot.status \notin {DONE, ERROR, BLACKLISTED}
     /\ \E P \in Allowed(slot, ledger[url], run.fate[url]) :
          LET t == _tick_slot_fast(slot, P, ledger[url]) IN
          /\ run' = NextSlot([run EXCEPT !.slots[n] = t.tab,
                 !.errs[url] = IF t.tab.status = ERROR THEN @ + 1 ELSE @])
          /\ ledger' = IF t.mark_done THEN PipelineMarkDone(ledger, url) ELSE ledger
     /\ UNCHANGED <<mode, now, observed, call, active, lockOwner, thread, client,
                    delivered, workers>>

\* "Brief sleep between rounds": the interval the loop sleeps after a round
\* that left the slots as they are.  any_converting: a slot was CONVERTING
\* after its tick (a slot changes status in its own pass only).
sleep_interval(slots) ==
  LET any_converting == \E n \in 1..Len(slots) : slots[n].status = CONVERTING IN
  IF any_converting
       /\ ~\E n \in 1..Len(slots) :
             slots[n].status \in {PENDING, NAVIGATING, DETAIL_WAIT, SCANNING,
                                  READY, ADD_CLICKED, CONFIRMING}
  THEN "POLL_INTERVAL" ELSE "TICK_INTERVAL"

NextPipeline ==
  \/ ClaimPhase
  \/ EndRun
  \/ BeginRound
  \/ RecycleSlot
  \/ TickSlot

SpecPipeline == InitPipeline /\ [][NextPipeline]_vars

\* Another worker completes a url this run holds (it took the url over, or
\* reports late): its mark_done reaches the shared ledger.
OtherWorkerDone ==
  /\ run.pc \in {"check", "slots"}
  /\ \E k \in Keys :
       /\ ledger[k] # Absent /\ ledger[k].status = STATUS_HELD
       /\ ledger' = IF mode = "http" THEN done(ledger, k, "w2", now)
                    ELSE mark_done(ledger, k, now)
  /\ UNCHANGED <<mode, now, observed, call, active, lockOwner, thread, client,
                 delivered, workers, run>>

NextShared == NextPipeline \/ OtherWorkerDone

\* The runs of one or two urls beside another worker, on a ledger that
\* starts empty.
InitShared == InitPipeline /\ ledger = NoKeys /\ Len(run.job_urls) <= 2

SpecShared == InitShared /\ [][NextShared]_vars

\* The run of two urls on two slots whose cards are of any type: every tick
\* changes the status of its slot.
InitRounds ==
  /\ mode \in Modes
  /\ ledger = NoKeys
  /\ now = 0
  /\ observed = {}
  /\ call = NoCall
  /\ active = [c \in Callers |-> [u \in Urls |-> Idle]]
  /\ lockOwner = NoStr
  /\ thread = [w \in Threads |-> ThreadIdle]
  /\ client = ClientIdle
  /\ delivered = <<>>
  /\ workers = [w \in WorkerIds |-> NoTime]
  /\ run = RunStart(<<"A", "B">>, 2, CardsFate)

SpecRounds == InitRounds /\ [][NextPipeline]_vars

\* The run with its loop never halted: whenever a step of the run is possible
\* one is taken.
SpecPipelineLive == SpecPipeline /\ WF_vars(NextPipeline)

\* ------------------------------------------------------- run_dataset_mover
\* The batch loop of one worker.  The cards of the Annotating column are
\* urls of Keys: a card added to the dataset leaves the column, a card whose
\* url failed stays.  The record of the loop holds the locals of
\* run_dataset_mover beside those of the _run_pipeline call it makes.
KeyOrder == <<"A", "B", "C">>
\* The cards on the board when the worker starts.
Board == {"A", "B"}
\* parallel_tabs of the worker's configuration.
ParallelTabs == {1, 2}

\* An entry another worker (bottom_up on w2) wrote at time 0.
OtherEntry(status) ==
  [status |-> status, holder |-> "bottom_up",
   worker |-> IF mode = "http" THEN "w2" ELSE NoStr,
   claimed_at |-> 0, updated_at |-> 0,
   error |-> IF status = STATUS_FAILED THEN "e1" ELSE NoStr]

\* GET /snapshot and URLCoordinator.get_snapshot: the urls grouped by status.
get_snapshot(data) ==
  [held |-> {k \in Keys : data[k] # Absent /\ data[k].status = STATUS_HELD},
   done |-> {k \in Keys : data[k] # Absent /\ data[k].status = STATUS_DONE},
   failed |-> {k \in Keys : data[k] # Absent /\ data[k].status = STATUS_FAILED}]

\* count_by_status("done")
count_by_status(data, status) ==
  Cardinality({k \in Keys : data[k] # Absent /\ data[k].status = status})

\* collect_job_urls: the cards from position n on, in board order, without
\* the done, the held and the blacklisted ones, until count urls are found.
RECURSIVE collect_job_urls(_, _, _, _, _, _, _)
collect_job_urls(board, count, blacklist, coord_held, coord_done, n, urls) ==
  IF n > Len(KeyOrder) \/ Len(urls) >= count THEN urls
  ELSE LET job_url == KeyOrder[n] IN
       IF job_url \notin board \/ job_url \in coord_done
            \/ job_url \in coord_held \/ job_url \in blacklist
       THEN collect_job_urls(board, count, blacklist, coord_held, coord_done,
                             n + 1, urls)
       ELSE collect_job_urls(board, count, blacklist, coord_held, coord_done,
                             n + 1, Append(urls, job_url))

\* The urls one batch collects from the board under the current snapshot.
Collected(r) ==
  LET snapshot == get_snapshot(ledger)
      batch_size == Min(r.num_slots, Cardinality(r.board))
  IN collect_job_urls(r.board, batch_size, r.blacklist, snapshot.held,
                      snapshot.done, 1, <<>>)

\* run_dataset_mover when the loop is entered.
MoverStart(board, parallel_tabs) ==
  [pc |-> "board", i |-> 0, job_urls |-> <<>>, num_slots |-> parallel_tabs,
   fate |-> BriskFate, granted |-> <<>>, queue |-> <<>>, slots |-> <<>>,
   moved |-> 0, permanently_failed |-> <<>>,
   retry_tracker |-> [k \in Keys |-> 0], blacklisted_urls |-> {},
   reported |-> <<>>, errs |-> [k \in Keys |-> 0],
   counted |-> [k \in Keys |-> 0],
   board |-> board, blacklist |-> {}, consecutive_empty_batches |-> 0,
   original_job_count |-> 0, total_moved |-> 0]

\* The call _run_pipeline(job_urls, context, parallel_tabs).
StartBatch(r, job_urls) ==
  [r EXCEPT !.pc = "start", !.i = 0, !.job_urls = job_urls, !.granted = <<>>,
     !.queue = <<>>, !.slots = <<>>, !.moved = 0, !.permanently_failed = <<>>,
     !.retry_tracker = [k \in Keys |-> 0], !.blacklisted_urls = {},
     !.reported = <<>>, !.errs = [k \in Keys |-> 0],
     !.counted = [k \in Keys |-> 0],
     !.consecutive_empty_batches = 0]

InitMover ==
  /\ mode \in Modes
  /\ ledger \in {d \in [Keys -> {Absent, OtherEntry(STATUS_HELD),
                                 OtherEntry(STATUS_FAILED), OtherEntry(STATUS_DONE)}] :
                   \A k \in Keys \ Board : d[k] = Absent}
  /\ now = 0
  /\ observed = {}
  /\ call = NoCall
  /\ active = [c \in Callers |-> [u \in Urls |-> Idle]]
  /\ lockOwner = NoStr
  /\ thread = [w \in Threads |-> ThreadIdle]
  /\ client = ClientIdle
  /\ delivered = <<>>
  /\ workers = [w \in WorkerIds |-> NoTime]
  /\ run \in {MoverStart(Board, n) : n \in ParallelTabs}

\* The top of "while True": the job count, the exit when the board is
\* empty, the snapshot and the collection, and the handling of an empty batch.
ReadBoard ==
  LET job_count == Cardinality(run.board)
      original == IF run.original_job_count = 0 THEN job_count
                  ELSE run.original_job_count
      job_urls == Collected(run)
      r == [run EXCEPT !.original_job_count = original]
  IN /\ run.pc = "board"
     /\ run' = IF job_count = 0
               THEN IF run.original_job_count # 0
                       /\ 10 * count_by_status(ledger, STATUS_DONE)
                            < 8 * run.original_job_count
                    THEN run
                    ELSE [run EXCEPT !.pc = "complete"]
               ELSE IF job_urls = <<>>
               THEN IF run.consecutive_empty_batches + 1 >= 3
                    THEN [r EXCEPT !.consecutive_empty_batches = @ + 1,
                            !.pc = "waiting"]
                    ELSE [r EXCEPT !.consecutive_empty_batches = @ + 1]
               ELSE StartBatch(r, job_urls)
     /\ UNCHANGED <<mode, ledger, now, observed, call, active, lockOwner, thread,
                    client, delivered, workers>>

\* After time.sleep(60): a fresh snapshot and one more collection.
AfterWait ==
  LET job_urls_final == Collected(run) IN
  /\ run.pc = "waiting"
  /\ run' = IF job_urls_final = <<>> THEN [run EXCEPT !.pc = "complete"]
            ELSE StartBatch(run, job_urls_final)
  /\ UNCHANGED <<mode, ledger, now, observed, call, active, lockOwner, thread,
                 client, delivered, workers>>

\* _run_pipeline has returned (batch_moved, batch_failed_urls): the failed
\* urls go to the blacklist, the completed cards have left the board.
FinishBatch ==
  LET batch_failed_urls == Range(run.permanently_failed) IN
  /\ run.pc = "returned"
  /\ run' = [run EXCEPT !.pc = "board",
               !.total_moved = @ + run.moved,
               !.blacklist = @ \cup batch_failed_urls,
               !.board = @ \ (Range(run.granted) \ batch_failed_urls)]
  /\ UNCHANGED <<mode, ledger, now, observed, call, active, lockOwner, thread,
                 client, delivered, workers>>

NextMover ==
  \/ ReadBoard
  \/ AfterWait
  \/ FinishBatch
  \/ NextPipeline
  \/ Tick

SpecMover == InitMover /\ [][NextMover]_vars

\* The worker never halted in the middle of its loop.
SpecMoverLive == SpecMover /\ WF_vars(ReadBoard \/ AfterWait \/ FinishBatch \/ NextPipeline)

\* ================================================================ claims
\* The claims' own words for an entry's state at the current time.
IsAbsent(entry) == entry.status = "absent"
IsStaleHeld(entry) ==
  entry.status = "held" /\ now - entry.updated_at >= StaleTimeout
IsFreshHeld(entry) ==
  entry.status = "held" /\ now - entry.updated_at < StaleTimeout

C3_StaleReclaim ==
  [][\A c \in Callers, url \in OneUrl :
       Claim(c, url) =>
         /\ IsAbsent(ledger[url]) =>
              /\ call'.ok
              /\ ledger'[url].claimed_at = now /\ ledger'[url].updated_at = now
         /\ IsFreshHeld(ledger[url]) => ~call'.ok /\ ledger' = ledger
         /\ IsStaleHeld(ledger[url]) =>
              /\ call'.ok
              /\ ledger'[url].status = "held"
              /\ ledger'[url].holder = c.holder
              /\ ledger'[url].claimed_at = ledger[url].claimed_at
              /\ ledger'[url].updated_at = now]_vars

\* C3 witness: x claimed at time 0, y's claim was granted once the entry was
\* stale: the entry is held by y, claimed at 0, updated after stale_timeout.
C3_Reclaimed ==
  \E url \in OneUrl :
    /\ call.op = "claim" /\ call.ok /\ call.who = "w2"
    /\ ledger[url].status = "held" /\ ledger[url].holder = "bottom_up"
    /\ ledger[url].claimed_at = 0
    /\ ledger[url].updated_at >= StaleTimeout

\* C4 as the spec states it: at every time, at most one worker is between its
\* granted claim on a url and its own mark_done / mark_failed for it.
C4_OneActiveOwner ==
  \A url \in Urls : Cardinality({c \in Callers : active[c][url] # Idle}) <= 1

\* C4 amended: two workers are both between a granted claim on a url and
\* their own mark only if the later grant came stale_timeout or more after
\* the earlier one (or the ledger was reset in between): while a worker's
\* grant is younger than stale_timeout, no other worker is granted the url.
C4_OneOwnerPerLease ==
  \A url \in Urls : \A c1, c2 \in Callers :
    (c1 # c2 /\ active[c1][url] # Idle /\ active[c2][url] # Idle)
    => /\ active[c1][url].at < active[c2][url].at
            => \/ active[c1][url].wiped
               \/ active[c2][url].at - active[c1][url].at >= StaleTimeout
       /\ active[c1][url].at = active[c2][url].at
            => active[c1][url].wiped \/ active[c2][url].wiped

\* C4 witness: w1 works on a url under a grant younger than stale_timeout and
\* w2's claim on it has just been denied.
C4_SecondDenied ==
  \E url \in OneUrl : \E c1, c2 \in Callers :
    /\ c1 # c2
    /\ active[c1][url] # Idle /\ now - active[c1][url].at < StaleTimeout
    /\ active[c2][url] = Idle
    /\ call.op = "claim" /\ call.who = c2.worker /\ ~call.ok

Repeats(op, c, url, error) ==
  /\ call.op = op /\ call.url = url /\ call.who = c.worker /\ call.error = error

\* Two entries that differ at most in updated_at.
SameButUpdatedAt(e1, e2) ==
  [e1 EXCEPT !.updated_at = 0] = [e2 EXCEPT !.updated_at = 0]

RECURSIVE SequentialClaims(_, _, _, _, _, _, _, _)
SequentialClaims(data, urls, i, holder, worker, t, granted, denied) ==
  IF i > Len(urls) THEN [data |-> data, granted |-> granted, denied |-> denied]
  ELSE LET r == claim(data, urls[i], holder, worker, t) IN
       SequentialClaims(r.data, urls, i + 1, holder, worker, t,
                        IF r.ok THEN Append(granted, urls[i]) ELSE granted,
                        IF r.ok THEN denied ELSE Append(denied, urls[i]))

GrantedThreads(url) ==
  {w \in Threads : thread[w].pc = "returned" /\ thread[w].url = url /\ thread[w].ok}

\* C1: of the concurrent claim calls on a key that was absent from the ledger,
\* at most one is granted, whatever the interleaving of the callers' steps.
C1_AtMostOneGranted ==
  \A url \in Urls : Cardinality(GrantedThreads(url)) <= 1

\* Every thread of the burst claimed the same key: one was granted and all
\* the others were denied.
C1_BurstOneWinner ==
  \E url \in Urls :
    /\ \A w \in Threads : thread[w].pc = "returned" /\ thread[w].url = url
    /\ Cardinality(GrantedThreads(url)) = 1


\* C8: when the request in flight was delivered twice, the server answered
\* the second delivery as the first and left the same ledger.
C8_SecondDeliverySame ==
  Len(delivered) = 2 =>
    /\ delivered[2].resp = delivered[1].resp
    /\ delivered[2].data = delivered[1].data

\* C9: an operation that returned without any response having been received
\* (every attempt failed) returned the safe default: claim False, batch_claim
\* nothing granted and every url denied, is_available True.
C9_SafeDefault ==
  (client.pc = "returned" /\ client.sent > 0 /\ ~client.answered) =>
     /\ client.op = "claim" => ~client.ok
     /\ client.op = "batch_claim" =>
           client.granted = <<>> /\ client.denied = client.urls
     /\ client.op = "available" => client.ok

\* A batch_claim of several urls returned with every attempt failed, after a
\* response to its first attempt was lost on the way back.
C9_UnreachableBatch ==
  /\ client.pc = "returned" /\ client.op = "batch_claim"
  /\ ~client.answered
  /\ Len(client.urls) >= 2
  /\ client.denied = client.urls

\* C10: one client operation sends at most two requests.
C10_AtMostTwoRequests == client.sent <= 2


\* C11: no step of an HTTP-mode worker turns a ledger with entries into the
\* empty ledger.
C11_WorkerNeverClears ==
  [][(mode = "http" /\ ledger # EmptyLedger) => ledger' # EmptyLedger]_vars


\* The run is inside its loop or has returned.
Running == run.pc \in {"check", "slots", "returned"}

\* The urls the slots hold that are neither counted nor given up yet.
InSlots ==
  {n \in 1..Len(run.slots) :
     run.slots[n].status \notin {"_counted", "_recycled", BLACKLISTED}}

\* C15: completed + permanently failed + still queued = granted.
C15_CountsAddUp ==
  Running => run.moved + Len(run.permanently_failed) + Len(run.queue)
               = Len(run.granted)


\* C15 as the code keeps it: the urls the slots still hold count too, and
\* when the run has returned completed + permanently failed = granted.
C15_CountsAddUpWithSlots ==
  /\ run.pc \in {"check", "slots"} =>
       run.moved + Len(run.permanently_failed) + Len(run.queue)
         + Cardinality(InSlots) = Len(run.granted)
  /\ run.pc = "returned" =>
       run.moved + Len(run.permanently_failed) = Len(run.granted)

\* A run with a requeued url waiting while a slot is busy and one url has
\* failed for good.
C15_MidRun ==
  /\ run.pc = "slots" /\ Len(run.permanently_failed) >= 1
  /\ run.queue # <<>> /\ InSlots # {}
  /\ \E k \in Keys : run.retry_tracker[k] > 0


\* The url is listed in permanently_failed / waits in the queue / was marked
\* done by the run.
PermanentlyFailed(k) ==
  \E n \in 1..Len(run.permanently_failed) : run.permanently_failed[n] = k
Queued(k) == \E n \in 1..Len(run.queue) : run.queue[n] = k

\* C12: once the run has returned, a url whose attempts ended in ERROR
\* BLACKLIST_THRESHOLD times was blacklisted, and a url that errored one time
\* less and was then completed is neither blacklisted nor failed; a
\* blacklisted url is never in the queue again.
C12_BlacklistAtThreshold ==
  /\ \A k \in run.blacklisted_urls : ~Queued(k)
  /\ run.pc = "returned" =>
       \A k \in Keys :
         /\ run.errs[k] >= BLACKLIST_THRESHOLD => k \in run.blacklisted_urls
         /\ (run.errs[k] = BLACKLIST_THRESHOLD - 1 /\ ledger[k].status = STATUS_DONE)
              => (k \notin run.blacklisted_urls /\ ~PermanentlyFailed(k))


\* A slot is working on the url, or holds its uncounted result.
Held(k) ==
  \E n \in 1..Len(run.slots) :
     /\ run.slots[n].job_url = k
     /\ run.slots[n].status \notin {ERROR, BLACKLISTED, "_counted", "_recycled"}

\* C13: a url is pushed back onto the queue at most MAX_CARD_RETRIES times;
\* a url that errored once more than that is reported permanently failed when
\* the run returns; and a permanently failed url was reported with
\* mark_failed, is FAILED in the ledger, and is neither queued nor attempted
\* again.
C13_RetryBudget ==
  Running =>
    \A k \in Keys :
      /\ run.retry_tracker[k] <= MAX_CARD_RETRIES
      /\ (run.pc = "returned" /\ run.errs[k] > MAX_CARD_RETRIES)
           => PermanentlyFailed(k)
      /\ PermanentlyFailed(k) =>
           /\ ~Queued(k) /\ ~Held(k)
           /\ \E n \in 1..Len(run.reported) : run.reported[n] = k
           /\ ledger[k].status = STATUS_FAILED

\* Inside the loop a url was given up after MAX_CARD_RETRIES requeues, without
\* being blacklisted, while another url is still waiting.
C13_GivenUp ==
  \E k \in Keys :
    /\ run.pc = "slots" /\ PermanentlyFailed(k) /\ k \notin run.blacklisted_urls
    /\ run.retry_tracker[k] = MAX_CARD_RETRIES /\ run.errs[k] = MAX_CARD_RETRIES + 1


\* C14: a url becomes permanently failed only in a step that finds its slot in
\* ERROR with the blacklist threshold reached or the url's retry budget used
\* up; an ERROR below both is requeued instead.
C14_FailedOnlyWhenExhausted ==
  [][\A k \in Keys :
       (Running /\ ~PermanentlyFailed(k) /\ PermanentlyFailed(k)') =>
          \E n \in 1..Len(run.slots) :
             /\ run.slots[n].job_url = k /\ run.slots[n].status = ERROR
             /\ \/ run.slots[n].consecutive_errors >= BLACKLIST_THRESHOLD
                \/ run.retry_tracker[k] >= MAX_CARD_RETRIES]_vars


\* The run of three granted urls A, B, C on two slots in which every attempt
\* on B ends in ERROR and no attempt on A or C does.
ScenarioB ==
  /\ run.fate = OnlyBFails
  /\ run.granted = <<"A", "B", "C">>
  /\ Len(run.slots) = 2

\* C16: that run returns 2 completed and [B] permanently failed, and leaves
\* B FAILED and A and C DONE in the ledger.
C16_TwoDoneBFailed ==
  (ScenarioB /\ run.pc = "returned") =>
     /\ run.moved = 2
     /\ run.permanently_failed = <<"B">>
     /\ ledger["B"].status = STATUS_FAILED
     /\ ledger["A"].status = STATUS_DONE
     /\ ledger["C"].status = STATUS_DONE

\* The scenario has returned after B was requeued twice.
C16_ScenarioReturned ==
  ScenarioB /\ run.pc = "returned" /\ run.retry_tracker["B"] = MAX_CARD_RETRIES


\* C17: the run loop always comes to its end: the run returns, with the queue
\* empty and no slot mid-lifecycle.
C17_RunReturns ==
  <>(run.pc = "returned" /\ run.queue = <<>> /\ ActiveSlots(run) = {})

\* A run has returned whose slot sat out a wait to its limit, reloaded the
\* page, and completed its url afterwards.
C17_WaitedAndFinished ==
  /\ run.pc = "returned" /\ run.moved >= 1
  /\ \E n \in 1..Len(run.slots) :
        run.slots[n]._nav_retries > 0 /\ run.slots[n]._add_retry > 0


\* C18: the urls reported to the coordinator with mark_failed are exactly the
\* urls in permanently_failed, in the same order, whichever path failed them,
\* and each of them, and no other url of the run, is FAILED in the ledger.
C18_FailedIffReported ==
  Running =>
    /\ run.reported = run.permanently_failed
    /\ \A k \in Keys :
         PermanentlyFailed(k) <=>
           (ledger[k].status = STATUS_FAILED
              /\ \E n \in 1..Len(run.granted) : run.granted[n] = k)

\* A run has returned with three urls failed for good: one blacklisted in the
\* loop, one left in ERROR for the final accounting.
C18_FailedOnEveryPath ==
  /\ run.pc = "returned" /\ Len(run.permanently_failed) = 3
  /\ run.blacklisted_urls # {}
  /\ \E n \in 1..Len(run.slots) :
        run.slots[n].status = ERROR /\ run.slots[n].job_url \notin run.blacklisted_urls
  /\ \E k \in Keys :
        PermanentlyFailed(k) /\ k \notin run.blacklisted_urls
          /\ \A n \in 1..Len(run.slots) : run.slots[n].job_url # k


\* C19: the pass of the loop over a slot in VERIFYING leaves the slot DONE and
\* its url done in the ledger, whatever the check of the server found
\* (redirected, job still there, or an exception); the slot leaves VERIFYING
\* for no other status.
C19_VerifyingToDone ==
  [][\A n \in 1..Len(run.slots) :
       /\ (run.pc = "slots" /\ run.i = n /\ run.slots[n].status = VERIFYING)
            => /\ run'.slots[n].status = DONE
               /\ run'.slots[n].job_url = run.slots[n].job_url
               /\ ledger'[run.slots[n].job_url].status = STATUS_DONE
       /\ (run.slots[n].status = VERIFYING /\ Len(run'.slots) >= n
             /\ run'.slots[n].status # VERIFYING)
            => run'.slots[n].status = DONE]_vars

\* A slot has come out of VERIFYING as DONE on a retry of its url, and the
\* url is done in the ledger.
C19_DoneAfterVerifying ==
  /\ run.pc \in {"slots", "check"}
  /\ \E n \in 1..Len(run.slots) :
        /\ run.slots[n].status = DONE /\ run.slots[n].retry_count > 0
        /\ ledger[run.slots[n].job_url].status = STATUS_DONE


\* The place of a status in the lifecycle.
Rank(status) ==
  CASE status = PENDING -> 0 [] status = NAVIGATING -> 1
    [] status = DETAIL_WAIT -> 2 [] status = SCANNING -> 3
    [] status = NULL_CLICKED -> 4 [] status = CONVERTING -> 5
    [] status = READY -> 6 [] status = ADD_CLICKED -> 7
    [] status = CONFIRMING -> 8 [] status = VERIFYING -> 9
    [] status = DONE -> 10 [] OTHER -> 11

Lifecycle ==
  {PENDING, NAVIGATING, DETAIL_WAIT, SCANNING, NULL_CLICKED, CONVERTING, READY,
   ADD_CLICKED, CONFIRMING, VERIFYING}

\* The steps of the required order: each status to the next, and SCANNING
\* directly to READY.
RequiredOrder ==
  {<<s, t>> \in Lifecycle \X (Lifecycle \cup {DONE}) : Rank(t) = Rank(s) + 1}
    \cup {<<SCANNING, READY>>}

\* The status changes of the slots in one step, with the ledger's status of
\* the slot's url before the step.
StatusChanges ==
  {<<run.slots[n].status, run'.slots[n].status,
     IF ledger[run.slots[n].job_url] = Absent THEN NoStr
     ELSE ledger[run.slots[n].job_url].status>> :
     n \in {m \in 1..Len(run.slots) :
              Len(run'.slots) >= m /\ run'.slots[m].status # run.slots[m].status}}

C21_OwnFailuresOnly ==
  Running =>
    /\ \A n \in 1..Len(run.slots) :
         run.slots[n].status = ERROR
           => run.slots[n].consecutive_errors <= run.errs[run.slots[n].job_url]
    /\ \A k \in run.blacklisted_urls : run.errs[k] >= BLACKLIST_THRESHOLD


\* C22: a url on the board whose claim was abandoned and has gone stale is
\* eventually claimed by the running worker and driven to DONE or FAILED.
C22_StaleHeldIsTakenOver ==
  \A k \in Board :
    (k \in run.board /\ _is_stale(ledger[k], now) /\ run.pc # "complete")
      ~> (ledger[k].status \in {STATUS_DONE, STATUS_FAILED})

\* C23: the batch loop comes to its end.
C23_LoopStops == <>(run.pc = "complete")


\* C24: after a round the loop sleeps POLL_INTERVAL only if every slot that
\* is mid-lifecycle is CONVERTING.
C24_LongSleepOnlyWhenAllConverting ==
  (run.pc = "check" /\ sleep_interval(run.slots) = "POLL_INTERVAL")
    => \A n \in ActiveSlots(run) : run.slots[n].status = CONVERTING


\* C25: a slot in DETAIL_WAIT whose tick does not raise goes to ERROR for a
\* gate that timed out only after a reload recovery has been used.
C25_ReloadBeforeError ==
  \A n \in 1..Len(run.slots) :
    run.slots[n].status = DETAIL_WAIT =>
      \A P \in Findings(DETAIL_WAIT) :
        (~P.raised /\ tick_detail_wait(run.slots[n], P).status = ERROR)
          => run.slots[n]._nav_retries >= 1


\* C26: the tick of a CONVERTING slot that does not raise sends the slot to
\* ERROR exactly when the progress counter has not increased for longer than
\* the stall budget and the conversion is not complete; a tick that sees the
\* counter increase restarts the stall timer, and a tick that sees completion
\* moves the slot to READY whatever the timer says.
C26_StallOnlyWithoutProgress ==
  \A n \in 1..Len(run.slots) :
    run.slots[n].status = CONVERTING =>
      \A P \in Findings(CONVERTING) :
        LET tab == run.slots[n]
            after == tick_converting(tab, P)
            increased == P.current > tab.last_progress_count
        IN ~P.raised =>
             /\ (after.status = ERROR)
                  <=> (~increased /\ Expired(tab, P) /\ ~P.done)
             /\ P.done => after.status = READY
             /\ (increased /\ ~P.done)
                  => (after.status = CONVERTING /\ after.waited = 0
                      /\ after.last_progress_count = P.current)

\* A CONVERTING slot that made progress and has since used up its stall budget.
C26_BudgetUsedAfterProgress ==
  \E n \in 1..Len(run.slots) :
    /\ run.slots[n].status = CONVERTING
    /\ run.slots[n].last_progress_count >= 1
    /\ run.slots[n].waited >= TimerTicks


\* C27: while a batch_claim call is between the decisions for two urls of its
\* list, the ledger changes by the steps of that call only.
C27_BatchIsOneCriticalSection ==
  [][(/\ thread[BatchThread].pc = "batch"
      /\ thread[BatchThread].i > 1
      /\ ledger' # ledger)
       => thread'[BatchThread] # thread[BatchThread]]_vars


\* C28: an entry that is DONE is DONE after every call of claim, batch_claim,
\* mark_done and mark_failed, whoever makes it.
C28_DoneStaysDone ==
  [][\A u \in Urls :
       (ledger[u] # Absent /\ ledger[u].status = STATUS_DONE)
         => (ledger'[u] # Absent /\ ledger'[u].status = STATUS_DONE)]_vars


\* The times url k occurs in the list.
Occurrences(list, k) == Cardinality({n \in 1..Len(list) : list[n] = k})

\* C29: when the run has returned, completed + permanently failed = granted,
\* and every granted url was either counted as completed once or listed as
\* permanently failed once, never both and never twice; no other url is
\* counted or listed.
C29_EachGrantedKeyOnce ==
  run.pc = "returned" =>
    /\ run.moved + Len(run.permanently_failed) = Len(run.granted)
    /\ \A k \in Keys :
         /\ Occurrences(run.granted, k) <= 1
         /\ run.counted[k] + Occurrences(run.permanently_failed, k)
              = Occurrences(run.granted, k)

\* A run of three urls has returned with a url completed after a retry and a
\* url permanently failed.
C29_MixedReturn ==
  /\ run.pc = "returned" /\ Len(run.granted) = 3
  /\ run.moved >= 1 /\ Len(run.permanently_failed) >= 1
  /\ \E k \in Keys : run.counted[k] = 1 /\ run.retry_tracker[k] >= 1


\* C30: no step of the workers that share a coordination file, the start of a
\* worker included, removes an entry from the file, and a url is granted only
\* when no running worker holds a fresh claim on it.
C30_StartKeepsEntries ==
  [][\A u \in Urls :
       /\ ledger[u] # Absent => ledger'[u] # Absent
       /\ \A c \in Callers :
            (active[c][u] = Idle /\ active'[c][u] # Idle) =>
               \A d \in Callers \ {c} :
                  active[d][u] # Idle => now - active[d][u].at >= StaleTimeout]_vars

====
